---------------------------- MODULE Spec2Model ----------------------------
(***************************************************************************)
(* TeactN, the global-state propagation engine of src/lib/teact/teactn.tsx *)
(* (production build: DEBUG and DEBUG_MORE are false).                     *)
(*                                                                         *)
(* JavaScript runs one task to completion, so every top-level call is one  *)
(* action, except a dispatch: its drain loop is followed handler by        *)
(* handler (the position of the running call is `stack`), and while it     *)
(* runs no other top-level action is enabled.                              *)
(***************************************************************************)
EXTENDS Integers, Sequences, FiniteSets, TLC

(* ------------------------------ bounds -------------------------------- *)
\* dispatches (top-level and re-entrant) followed within one drain
MaxChain == 3
\* handler registrations followed
MaxHandlers == 3
\* idle registrations of the gate that are told apart
MaxOnce == 1
\* throttled requests within one tick that are told apart
MaxReqs == 2
\* subscribers mounted at a time
MaxContainers == 2
\* callbacks registered through addCallback at a time
MaxCallbacks == 2

(* ------------------------------ values -------------------------------- *)
\* State objects, compared by reference: G0 is the initial { isInited: false }.
Globals == {"G0", "G1", "G2"}
\* setUntypedGlobal(newGlobal?: ...) may be called without a state object.
Undefined == "undefined"
NoGlobal == "none"
Names == {"A", "B"}
\* ActionOptions (forceOutdated is only read under DEBUG).
OptionsSet == [forceOnHeavyAnimation : BOOLEAN, forceSyncOnIOs : BOOLEAN]
NoOptions == [forceOnHeavyAnimation |-> FALSE, forceSyncOnIOs |-> FALSE]
SyncOptions == [forceOnHeavyAnimation |-> FALSE, forceSyncOnIOs |-> TRUE]
\* What a handler returns: nothing, a promise, a state object; or it throws.
Void == "void"
Promise == "promise"
Throw == "throw"
Responses == {Void, Promise, Throw} \cup Globals

VARIABLES
  \* ---- the program's state
  currentGlobal,          \* let currentGlobal
  forceOnHeavyAnimation,  \* let forceOnHeavyAnimation = true
  actionHandlers,         \* name -> handlers, in registration order
  actionQueue,            \* let actionQueue: closures [id, name, options]
  containers,             \* Map<string, Container>, in insertion order
  callbacks,              \* const callbacks = [updateContainers]
  waiting,                \* throttleWithTickEnd(runCallbacks): a run is due at tick end
  isHeavyAnimating,       \* getIsHeavyAnimating()
  onceIdle,               \* getIsHeavyAnimating.once(runCallbacksThrottled) registrations
  stack,                  \* active drain loops, innermost last: [id, name, options, h]
  \* ---- history, read only by the properties
  hist,                   \* of the scheduler: passes, runs, requests
  log,                    \* handler invocations of the current drain: [id, handler, global]
  dispatched,             \* dispatches of the current drain: [name, parent, by]
  outcome,                \* of the last outermost dispatch: none | running | returned | threw
  lastThrow               \* a handler threw: 0 none, 1 alone in the queue, 2 others queued

progVars == <<currentGlobal, forceOnHeavyAnimation, containers, callbacks, waiting,
              isHeavyAnimating, onceIdle>>
dispVars == <<actionQueue, stack, log, dispatched, outcome, lastThrow>>
vars == <<currentGlobal, forceOnHeavyAnimation, actionHandlers, actionQueue,
          containers, callbacks, waiting, isHeavyAnimating, onceIdle, stack, hist, log,
          dispatched, outcome, lastThrow>>

Sat(n, cap) == IF n < cap THEN n + 1 ELSE n

(* ------------------------------ history ------------------------------- *)
NoTrk == [on |-> FALSE, quiet |-> FALSE, passes |-> 0, new |-> NoGlobal, ok |-> TRUE]

\* The last return of a handler: what it returned, the options of its dispatch,
\* the live state before and after, whether setUntypedGlobal was called and
\* with what, whether a pass ran before the next handler, and the scheduler
\* after it.
NoRet == [response |-> "none", options |-> [forceOnHeavyAnimation |-> FALSE,
                                            forceSyncOnIOs |-> FALSE],
          before |-> "none", after |-> "none", called |-> FALSE, arg |-> "none",
          passed |-> FALSE, force |-> FALSE, waiting |-> FALSE]

\* Each specification records the histories its properties read (`watch`);
\* the others stay as they start.
HistInit ==
  [watch |-> {},
   seen |-> NoGlobal,             \* the state the last pass read
   dirty |-> FALSE,               \* the state was replaced since the last pass
   deferred |-> FALSE,            \* the last run of runCallbacks was deferred by the gate
   lastDistinct |-> "G0",         \* last replace argument that was a new reference
   idleReplaceChanged |-> FALSE,  \* a replace by the live reference changed something
   lastCall |-> "none",           \* the last replace call: none | new | same | undefined
   trk |-> NoTrk,                 \* the dispatch being followed
   reqs |-> 0,                    \* runCallbacksThrottled calls since the last tick end
   syncs |-> 0,                   \* forceSyncOnIOs replaces since the last tick end
   runs |-> 0,                    \* runCallbacks bodies run since the last tick end
   lastTick |-> [reqs |-> 0, runs |-> 0, passed |-> FALSE],
   plainWait |-> "no",            \* a plain replace made while busy waits: no | clean | primed
   passedInWait |-> FALSE,        \* a pass ran while it waited
   urgentPending |-> FALSE,       \* a forceOnHeavyAnimation replace no pass has served
   urgentServedBusy |-> FALSE,    \* the last one was served by a pass while the gate was busy
   bypasses |-> 0,                \* passes run with the gate busy since the override was set
   reported |-> 0,                \* handleError calls of the last pass
   passMark |-> FALSE,            \* a pass ran since the mark was cleared
   syncMark |-> [passed |-> FALSE, read |-> NoGlobal],  \* the same, with the state read
   sync |-> [made |-> FALSE, passed |-> FALSE, read |-> NoGlobal, arg |-> NoGlobal],
                                  \* the last replace call: it was effective and had
                                  \* forceSyncOnIOs; a pass ran before it returned
   syncFlip |-> FALSE,            \* changes with every such call
   callFlip |-> FALSE,            \* changes with every call of setUntypedGlobal
   passFlip |-> FALSE,            \* changes with every pass
   drainPass |-> "none",          \* a pass ran inside the drain: none | sync | other
   cbStart |-> <<>>,              \* the callbacks when the last pass began
   cbRan |-> <<>>,                \* the callbacks the last pass called, in order
   cbRemoved |-> FALSE,           \* a callback was removed during the last pass
   ret |-> NoRet,                 \* the last return of a handler in the drain
   gone |-> {},                   \* the ids of the subscribers that unmounted
   late |-> {}]                   \* those of them a pass evaluated afterwards

Category(field) ==
  CASE field \in {"lastDistinct", "idleReplaceChanged", "lastCall"} -> "cell"
    [] field \in {"reqs", "syncs", "runs", "lastTick"} -> "tick"
    [] field \in {"plainWait", "passedInWait", "urgentPending", "urgentServedBusy",
                  "bypasses", "deferred"} -> "gate"
    [] field \in {"seen", "dirty"} -> "pass"
    [] field = "trk" -> "trk"
    [] field = "reported" -> "err"
    [] field \in {"passMark", "drainPass"} -> "drain"
    [] field \in {"syncMark", "sync", "syncFlip", "callFlip", "passFlip"} -> "sync"
    [] field \in {"cbStart", "cbRan", "cbRemoved"} -> "cb"
    [] field = "ret" -> "resp"
    [] field \in {"gone", "late"} -> "reg"
    [] OTHER -> "watch"

CategoryOf == [f \in DOMAIN HistInit |-> Category(f)]

Recorded(h) ==
  IF h.watch = {} THEN HistInit
  ELSE [f \in DOMAIN HistInit |->
          IF f = "watch" \/ CategoryOf[f] \in h.watch THEN h[f] ELSE HistInit[f]]

(* ------------------- the scheduler as a state record ------------------ *)
\* The state the replace / recompute path reads and writes, as one record, so
\* that a call made from another call is function application.
St ==
  [currentGlobal |-> currentGlobal,
   forceOnHeavyAnimation |-> forceOnHeavyAnimation,
   containers |-> containers,
   callbacks |-> callbacks,
   waiting |-> waiting,
   isHeavyAnimating |-> isHeavyAnimating,
   onceIdle |-> onceIdle,
   hist |-> hist]

\* The record is bound, so that it is evaluated once.
Commit(s) ==
  \E x \in {s} :
    /\ currentGlobal' = x.currentGlobal
    /\ forceOnHeavyAnimation' = x.forceOnHeavyAnimation
    /\ containers' = x.containers
    /\ callbacks' = x.callbacks
    /\ waiting' = x.waiting
    /\ isHeavyAnimating' = x.isHeavyAnimating
    /\ onceIdle' = x.onceIdle
    /\ hist' = Recorded(x.hist)

ProgOf(s) ==
  <<s.currentGlobal, s.forceOnHeavyAnimation, s.containers, s.callbacks, s.waiting,
    s.isHeavyAnimating, s.onceIdle>>


(* --------------------------- history, recorded ------------------------ *)
\* An effective replace, as the caller sees it (decided from the arguments alone).
Effective(s, newGlobal) == newGlobal \in Globals /\ newGlobal # s.currentGlobal

NoteReplace(s, newGlobal, options) ==
  LET h == s.hist
      plain == ~options.forceOnHeavyAnimation /\ ~options.forceSyncOnIOs
  IN IF ~Effective(s, newGlobal)
     THEN [h EXCEPT !.lastCall = IF newGlobal = Undefined THEN "undefined" ELSE "same"]
     ELSE [h EXCEPT
       !.lastCall = "new",
       !.lastDistinct = newGlobal,
       !.dirty = TRUE,
       !.syncs = IF options.forceSyncOnIOs THEN Sat(@, MaxReqs) ELSE @,
       !.plainWait = IF ~plain THEN "no"
                     ELSE IF ~s.isHeavyAnimating THEN @
                     ELSE IF s.forceOnHeavyAnimation THEN "primed" ELSE "clean",
       !.passedInWait = IF plain /\ s.isHeavyAnimating THEN FALSE ELSE @,
       !.urgentPending = @ \/ (options.forceOnHeavyAnimation /\ ~options.forceSyncOnIOs),
       !.urgentServedBusy = IF plain THEN @ ELSE FALSE,
       !.bypasses = IF plain THEN @ ELSE 0]

NotePass(s) ==
  LET h == s.hist
  IN [h EXCEPT
       !.seen = s.currentGlobal,
       !.dirty = FALSE,
       !.passMark = TRUE,
       !.syncMark = [passed |-> TRUE, read |-> s.currentGlobal],
       !.passFlip = ~@,
       !.deferred = FALSE,
       !.trk = IF @.on
               THEN [@ EXCEPT !.passes = Sat(@, 2),
                              !.ok = @ /\ s.currentGlobal = h.trk.new]
               ELSE @,
       !.passedInWait = @ \/ h.plainWait # "no",
       !.urgentServedBusy = @ \/ (h.urgentPending /\ s.isHeavyAnimating),
       !.urgentPending = FALSE,
       !.bypasses = IF s.isHeavyAnimating THEN Sat(@, 2) ELSE @]

NoteRun(s) == [s.hist EXCEPT !.runs = Sat(@, MaxReqs)]

NoteDefer(s) == [s.hist EXCEPT !.deferred = TRUE]

NoteRequest(s) == [s.hist EXCEPT !.reqs = Sat(@, MaxReqs)]

(* ------------------------- props and subscribers --------------------- *)
\* A props object is the set of its <<key, value>> entries; {} is the object
\* without keys. A value is a number or a chat id; Empty is undefined.
Empty == "empty"
Keys(props) == {kv[1] : kv \in props}
Get(props, key) ==
  IF key \in Keys(props) THEN (CHOOSE kv \in props : kv[1] = key)[2] ELSE Empty

\* arePropsShallowEqual(currentProps, newProps): the same number of keys, and
\* every key of the current props has the same value in the new ones.
ArePropsShallowEqual(currentProps, newProps) ==
  /\ Cardinality(Keys(currentProps)) = Cardinality(Keys(newProps))
  /\ \A key \in Keys(currentProps) : Get(currentProps, key) = Get(newProps, key)

\* The chat a state has open.
ChatOf(global) ==
  CASE global = "G1" -> "chat-1"
    [] global = "G2" -> "chat-2"
    [] OTHER -> Empty

\* The mapStateToProps functions of the subscribers: pure functions of the
\* state and the own props that return a props object or throw
\* (MapperThrows, and then there is no props object).
\*   count: G1 and G2 map to the same props
\*   keys:  one key, two keys (one changed, one added), no key
\*   own:   the own props' x
\*   fails: throws on G1
\*   empty: the default mapper () => ({})
Mappers == {"count", "keys", "own", "fails", "empty"}
MapperThrows(mapper, global, ownProps) == mapper = "fails" /\ global = "G1"
MapStateToProps(mapper, global, ownProps) ==
  CASE mapper = "count" -> {<<"n", IF global = "G0" THEN 0 ELSE 1>>}
    [] mapper = "keys" ->
         (CASE global = "G0" -> {<<"a", 0>>}
            [] global = "G1" -> {<<"a", 1>>, <<"b", 1>>}
            [] OTHER -> {})
    [] mapper = "own" -> {<<"v", Get(ownProps, "x")>>}
    [] mapper = "fails" ->
         (CASE global = "G0" -> {<<"a", 1>>}
            [] global = "G1" -> {}
            [] OTHER -> {<<"a", 2>>})
    [] OTHER -> {}

OwnPropsSet == {{<<"x", 0>>}, {<<"x", 1>>}}

\* The activation functions: none (no activationFn), or a function that calls
\* stickToFirst with each of Sticks(...) in turn and returns the last result;
\* "open" calls nothing and returns whether the own props' x is 1.
ActivationFns == {"none", "stick", "stickTwice", "open"}
Sticks(activationFn, global, props) ==
  CASE activationFn = "stick" -> <<ChatOf(global)>>
    [] activationFn = "stickTwice" -> <<ChatOf(global), "chat-2">>
    [] OTHER -> <<>>

Truthy(value) == value # Empty

\* The call is added to the calls of the evaluation, and the first non-empty
\* value ever passed is kept (history). `held` is the container's stuckTo when
\* the call is made, `captured` the one the closure compares with.
NoteStick(container, stuckTo, stickTo, result) ==
  [container EXCEPT
     !.first = IF ~Truthy(@) THEN stickTo ELSE @,
     !.last.calls = Append(@, [stickTo |-> stickTo, result |-> result,
                               held |-> container.stuckTo, captured |-> stuckTo])]

\* if (stickTo && !stuckTo) { container.stuckTo = stickTo; }
Latch(container, stuckTo, stickTo) ==
  IF Truthy(stickTo) /\ ~Truthy(stuckTo)
  THEN [container EXCEPT !.stuckTo = stickTo]
  ELSE container

\* A faulty variant: any non-empty value is accepted.
StickToFirstAny(container, stuckTo, stickTo) ==
  [container |-> Latch(NoteStick(container, stuckTo, stickTo, Truthy(stickTo)),
                       stuckTo, stickTo),
   result |-> Truthy(stickTo)]

\* A faulty variant: an empty value is accepted while nothing is latched.
StickToFirstEmpty(container, stuckTo, stickTo) ==
  LET result == ~Truthy(stuckTo) \/ stuckTo = stickTo
  IN [container |-> Latch(NoteStick(container, stuckTo, stickTo, result),
                          stuckTo, stickTo),
      result |-> result]

\* The stickToFirst closure of activateContainer: `stuckTo` is the value read
\* from the container before activationFn was called.
StickToFirst(container, stuckTo, stickTo) ==
  LET result == Truthy(stickTo) /\ (~Truthy(stuckTo) \/ stuckTo = stickTo)
  IN [container |-> Latch(NoteStick(container, stuckTo, stickTo, result),
                          stuckTo, stickTo),
      result |-> result]

RECURSIVE CallSticks(_, _, _, _)
CallSticks(container, stuckTo, sticks, result) ==
  IF sticks = <<>> THEN [container |-> container, result |-> result]
  ELSE LET r == StickToFirst(container, stuckTo, Head(sticks))
       IN CallSticks(r.container, stuckTo, Tail(sticks), r.result)

\* function activateContainer(container, global, props): the container (its
\* stuckTo may have been set) and the result.
ActivateContainer(container, global, props) ==
  IF container.activationFn = "none"
  THEN [container |-> container, result |-> TRUE]
  ELSE IF container.activationFn = "open"
  THEN [container |-> container, result |-> Get(props, "x") = 1]
  ELSE CallSticks(container, container.stuckTo,
                  Sticks(container.activationFn, global, props), FALSE)

\* What the last pass did with a container: the props it had before, whether
\* its activationFn was evaluated and with which calls of stickToFirst, whether
\* its mapper returned (visited) and what, whether it threw, and the calls of
\* forceUpdate.
NotVisited ==
  [visited |-> FALSE, before |-> {}, got |-> {}, notified |-> 0, threw |-> FALSE,
   evaluated |-> FALSE, calls |-> <<>>]

\* What the last render of a container did: the props it was given, the
\* mappedProps it had (if any), and whether its mapper was called and threw
\* (handleError is then called once); the state, and the ownProps and stuckTo
\* it had when the render began.
NoRender ==
  [done |-> FALSE, props |-> {}, had |-> FALSE, before |-> {}, derived |-> FALSE,
   reported |-> 0, global |-> "none", own |-> {}, stuck |-> Empty]

(* --------------------------- recompute pass --------------------------- *)
\* A faulty variant: the new props are notified but not stored.
UpdateOneKeep(container, newMappedProps) ==
  IF /\ Cardinality(Keys(newMappedProps)) # 0
     /\ ~(container.hasMapped
          /\ ArePropsShallowEqual(container.mappedProps, newMappedProps))
  THEN [container EXCEPT !.last.notified = @ + 1]
  ELSE container

\* A faulty variant: every visited container with props is updated.
UpdateOneAlways(container, newMappedProps) ==
  IF Cardinality(Keys(newMappedProps)) # 0
  THEN [container EXCEPT !.mappedProps = newMappedProps, !.hasMapped = TRUE,
                         !.last.notified = @ + 1]
  ELSE container

\* if (Object.keys(newMappedProps).length && !arePropsShallowEqual(...)) {
\*   container.mappedProps = newMappedProps; forceUpdate() }
\* A container without mappedProps has props that differ from any.
UpdateOne(container, newMappedProps) ==
  IF /\ Cardinality(Keys(newMappedProps)) # 0
     /\ ~(container.hasMapped
          /\ ArePropsShallowEqual(container.mappedProps, newMappedProps))
  THEN [container EXCEPT !.mappedProps = newMappedProps, !.hasMapped = TRUE,
                         !.last.notified = @ + 1]
  ELSE container

\* A faulty variant: the pass goes on after a mapper threw.
RECURSIVE WalkOn(_, _, _)
WalkOn(cs, i, global) ==
  IF i > Len(cs) THEN [containers |-> cs, reported |-> 0]
  ELSE LET a == ActivateContainer(cs[i], global, cs[i].ownProps)
           c == [a.container EXCEPT !.last.evaluated = TRUE]
           newMappedProps == MapStateToProps(c.mapStateToProps, global, c.ownProps)
       IN IF ~a.result
          THEN WalkOn([cs EXCEPT ![i] = c], i + 1, global)
          ELSE IF MapperThrows(c.mapStateToProps, global, c.ownProps)
          THEN LET w == WalkOn([cs EXCEPT ![i] = [c EXCEPT !.last.threw = TRUE]],
                               i + 1, global)
               IN [w EXCEPT !.reported = @ + 1]
          ELSE LET seenC == [c EXCEPT !.last.visited = TRUE,
                                      !.last.got = newMappedProps]
               IN WalkOn([cs EXCEPT ![i] = UpdateOne(seenC, newMappedProps)],
                         i + 1, global)

\* A faulty variant: the result of activateContainer is not looked at.
RECURSIVE WalkAll(_, _, _)
WalkAll(cs, i, global) ==
  IF i > Len(cs) THEN [containers |-> cs, reported |-> 0]
  ELSE LET a == ActivateContainer(cs[i], global, cs[i].ownProps)
           c == [a.container EXCEPT !.last.evaluated = TRUE]
           newMappedProps == MapStateToProps(c.mapStateToProps, global, c.ownProps)
       IN IF MapperThrows(c.mapStateToProps, global, c.ownProps)
          THEN [containers |-> [cs EXCEPT ![i] = [c EXCEPT !.last.threw = TRUE]],
                reported |-> 1]
          ELSE LET seenC == [c EXCEPT !.last.visited = TRUE,
                                      !.last.got = newMappedProps]
               IN WalkAll([cs EXCEPT ![i] = UpdateOne(seenC, newMappedProps)],
                          i + 1, global)

\* A faulty variant: the container whose mapper threw loses its props.
RECURSIVE WalkDrop(_, _, _)
WalkDrop(cs, i, global) ==
  IF i > Len(cs) THEN [containers |-> cs, reported |-> 0]
  ELSE LET a == ActivateContainer(cs[i], global, cs[i].ownProps)
           c == [a.container EXCEPT !.last.evaluated = TRUE]
           newMappedProps == MapStateToProps(c.mapStateToProps, global, c.ownProps)
       IN IF ~a.result
          THEN WalkDrop([cs EXCEPT ![i] = c], i + 1, global)
          ELSE IF MapperThrows(c.mapStateToProps, global, c.ownProps)
          THEN [containers |-> [cs EXCEPT ![i] = [c EXCEPT !.last.threw = TRUE,
                                                         !.mappedProps = {}]],
                reported |-> 1]
          ELSE LET seenC == [c EXCEPT !.last.visited = TRUE,
                                      !.last.got = newMappedProps]
               IN WalkDrop([cs EXCEPT ![i] = UpdateOne(seenC, newMappedProps)],
                           i + 1, global)

\* The loop of updateContainers from container i on; a throwing mapper is
\* reported (handleError) and ends the pass.
RECURSIVE Walk(_, _, _)
Walk(cs, i, global) ==
  IF i > Len(cs) THEN [containers |-> cs, reported |-> 0]
  ELSE LET a == ActivateContainer(cs[i], global, cs[i].ownProps)
           c == [a.container EXCEPT !.last.evaluated = TRUE]
           newMappedProps == MapStateToProps(c.mapStateToProps, global, c.ownProps)
       IN IF ~a.result
          THEN Walk([cs EXCEPT ![i] = c], i + 1, global)
          ELSE IF MapperThrows(c.mapStateToProps, global, c.ownProps)
          THEN [containers |-> [cs EXCEPT ![i] = [c EXCEPT !.last.threw = TRUE]],
                reported |-> 1]
          ELSE LET seenC == [c EXCEPT !.last.visited = TRUE,
                                      !.last.got = newMappedProps]
               IN Walk([cs EXCEPT ![i] = UpdateOne(seenC, newMappedProps)],
                       i + 1, global)

\* A faulty variant: the pass puts the initial state back.
UpdateContainersWrites(s) ==
  LET w == Walk([i \in 1..Len(s.containers) |->
                   [s.containers[i] EXCEPT
                      !.last = [NotVisited EXCEPT !.before = s.containers[i].mappedProps],
                      !.render = NoRender]],
                1, s.currentGlobal)
  IN [s EXCEPT !.containers = w.containers, !.hist.reported = w.reported,
               !.currentGlobal = "G0"]

\* function updateContainers()
UpdateContainers(s) ==
  LET w == Walk([i \in 1..Len(s.containers) |->
                   [s.containers[i] EXCEPT
                      !.last = [NotVisited EXCEPT !.before = s.containers[i].mappedProps],
                      !.render = NoRender]],
                1, s.currentGlobal)
  IN [s EXCEPT !.containers = w.containers, !.hist.reported = w.reported,
               !.hist.late = @ \cup {w.containers[i].id : i \in
                                       {j \in 1..Len(w.containers) :
                                          /\ w.containers[j].last.evaluated
                                          /\ w.containers[j].id \in s.hist.gone}}]

\* The callbacks of the application: "log" leaves the registry alone, "once"
\* removes itself when it is called, "adder" adds "log" when it is called (while
\* fewer than MaxCallbacks are registered).
CallbackFns == {"log", "once", "adder"}

\* callbacks.push(cb)
Push(cbs, cb) == Append(cbs, cb)

\* const index = callbacks.indexOf(cb); if (index !== -1) callbacks.splice(index, 1)
Splice(cbs, cb) ==
  IF \E i \in 1..Len(cbs) : cbs[i] = cb
  THEN LET index == CHOOSE i \in 1..Len(cbs) :
                      cbs[i] = cb /\ \A j \in 1..(i - 1) : cbs[j] # cb
       IN SubSeq(cbs, 1, index - 1) \o SubSeq(cbs, index + 1, Len(cbs))
  ELSE cbs

\* cb(currentGlobal)
CallCallback(s, cb) ==
  LET r == [s EXCEPT !.hist.cbRan = Append(@, cb)]
  IN CASE cb = "updateContainers" -> UpdateContainers(r)
       [] cb = "once" -> [r EXCEPT !.callbacks = Splice(@, cb),
                                   !.hist.cbRemoved = TRUE]
       [] cb = "adder" -> IF Len(r.callbacks) <= MaxCallbacks
                          THEN [r EXCEPT !.callbacks = Push(@, "log")]
                          ELSE r
       [] OTHER -> r

\* A faulty variant: the length is read again before every call.
RECURSIVE ForEachLive(_, _, _)
ForEachLive(s, k, len) ==
  IF k > Len(s.callbacks) THEN s
  ELSE ForEachLive(CallCallback(s, s.callbacks[k]), k + 1, len)

\* Array.prototype.forEach from index k: the length is read once, before the
\* first call, and an index that is no longer in the array is skipped.
RECURSIVE ForEach(_, _, _)
ForEach(s, k, len) ==
  IF k > len THEN s
  ELSE IF k > Len(s.callbacks) THEN ForEach(s, k + 1, len)
  ELSE ForEach(CallCallback(s, s.callbacks[k]), k + 1, len)

\* callbacks.forEach((cb) => cb(currentGlobal))
RunPass(s) ==
  ForEach([s EXCEPT !.hist = [NotePass(s) EXCEPT !.cbStart = s.callbacks,
                                                 !.cbRan = <<>>,
                                                 !.cbRemoved = FALSE,
                                                 !.reported = 0]],
          1, Len(s.callbacks))

\* getIsHeavyAnimating.once(runCallbacksThrottled)
OnceIdle(s) == [s EXCEPT !.onceIdle = Sat(@, MaxOnce), !.hist = NoteDefer(s)]

\* A faulty variant: the gate is not consulted.
RunCallbacksNoGate(s) ==
  LET r == [s EXCEPT !.hist = NoteRun(s)]
  IN RunPass([r EXCEPT !.forceOnHeavyAnimation = FALSE])

\* A faulty variant: the deferred run is not registered with the gate.
RunCallbacksNoOnce(s) ==
  LET r == [s EXCEPT !.hist = NoteRun(s)]
  IN IF r.forceOnHeavyAnimation
     THEN RunPass([r EXCEPT !.forceOnHeavyAnimation = FALSE])
     ELSE IF r.isHeavyAnimating
          THEN [r EXCEPT !.hist = NoteDefer(r)]
          ELSE RunPass(r)

\* A faulty variant: the override is not cleared.
RunCallbacksKeepForce(s) ==
  LET r == [s EXCEPT !.hist = NoteRun(s)]
  IN IF r.forceOnHeavyAnimation
     THEN RunPass(r)
     ELSE IF r.isHeavyAnimating
          THEN OnceIdle(r)
          ELSE RunPass(r)

\* function runCallbacks()
RunCallbacks(s) ==
  LET r == [s EXCEPT !.hist = NoteRun(s)]
  IN IF r.forceOnHeavyAnimation
     THEN RunPass([r EXCEPT !.forceOnHeavyAnimation = FALSE])
     ELSE IF r.isHeavyAnimating
          THEN OnceIdle(r)
          ELSE RunPass(r)

\* throttleWithTickEnd(runCallbacks): the first call of a tick schedules the
\* run at the tick's end, the others join it.
RunCallbacksThrottled(s) ==
  [s EXCEPT !.waiting = TRUE, !.hist = NoteRequest(s)]

(* ------------------------------ State Cell ---------------------------- *)
\* typeof newGlobal === 'object'
IsObject(newGlobal) == newGlobal \in Globals

\* A faulty variant: no identity check.
SetUntypedGlobalNoCheck(s, newGlobal, options) ==
  IF IsObject(newGlobal)
  THEN LET s1 == [s EXCEPT !.currentGlobal = newGlobal]
       IN IF options.forceSyncOnIOs
          THEN RunCallbacks([s1 EXCEPT !.forceOnHeavyAnimation = TRUE])
          ELSE RunCallbacksThrottled(
                 IF options.forceOnHeavyAnimation
                 THEN [s1 EXCEPT !.forceOnHeavyAnimation = TRUE]
                 ELSE s1)
  ELSE s

\* A faulty variant: the recompute is requested before the state is assigned.
SetUntypedGlobalLate(s, newGlobal, options) ==
  IF IsObject(newGlobal) /\ newGlobal # s.currentGlobal
  THEN LET s1 == IF options.forceSyncOnIOs
                 THEN RunCallbacks([s EXCEPT !.forceOnHeavyAnimation = TRUE])
                 ELSE RunCallbacksThrottled(
                        IF options.forceOnHeavyAnimation
                        THEN [s EXCEPT !.forceOnHeavyAnimation = TRUE]
                        ELSE s)
       IN [s1 EXCEPT !.currentGlobal = newGlobal]
  ELSE s

\* A faulty variant: every replace propagates synchronously.
SetUntypedGlobalSync(s, newGlobal, options) ==
  IF IsObject(newGlobal) /\ newGlobal # s.currentGlobal
  THEN LET s1 == [s EXCEPT !.currentGlobal = newGlobal]
       IN RunCallbacks(
            IF options.forceSyncOnIOs \/ options.forceOnHeavyAnimation
            THEN [s1 EXCEPT !.forceOnHeavyAnimation = TRUE]
            ELSE s1)
  ELSE s

\* A faulty variant: the synchronous run does not set the override.
SetUntypedGlobalSyncGated(s, newGlobal, options) ==
  IF IsObject(newGlobal) /\ newGlobal # s.currentGlobal
  THEN LET s1 == [s EXCEPT !.currentGlobal = newGlobal]
       IN IF options.forceSyncOnIOs
          THEN RunCallbacks(s1)
          ELSE RunCallbacksThrottled(IF options.forceOnHeavyAnimation
                 THEN [s1 EXCEPT !.forceOnHeavyAnimation = TRUE] ELSE s1)
  ELSE s

\* A faulty variant: forceOnHeavyAnimation propagates synchronously as well.
SetUntypedGlobalUrgentSync(s, newGlobal, options) ==
  IF IsObject(newGlobal) /\ newGlobal # s.currentGlobal
  THEN LET s1 == [s EXCEPT !.currentGlobal = newGlobal]
       IN IF options.forceSyncOnIOs \/ options.forceOnHeavyAnimation
          THEN RunCallbacks([s1 EXCEPT !.forceOnHeavyAnimation = TRUE])
          ELSE RunCallbacksThrottled(s1)
  ELSE s

\* export function setUntypedGlobal(newGlobal?, options?)
SetUntypedGlobal(s, newGlobal, options) ==
  IF IsObject(newGlobal) /\ newGlobal # s.currentGlobal
  THEN LET s1 == [s EXCEPT !.currentGlobal = newGlobal]
       IN IF options.forceSyncOnIOs
          THEN RunCallbacks([s1 EXCEPT !.forceOnHeavyAnimation = TRUE])
          ELSE RunCallbacksThrottled(
                 IF options.forceOnHeavyAnimation
                 THEN [s1 EXCEPT !.forceOnHeavyAnimation = TRUE]
                 ELSE s1)
  ELSE s

\* export function getUntypedGlobal()
GetUntypedGlobal(s) == s.currentGlobal

\* A replace call with its history: what the caller asked for, what changed.
Replace(s, newGlobal, options) ==
  LET s1 == [s EXCEPT !.hist = [NoteReplace(s, newGlobal, options) EXCEPT
                                  !.syncMark = [passed |-> FALSE, read |-> NoGlobal]]]
      s2 == SetUntypedGlobal(s1, newGlobal, options)
      made == Effective(s, newGlobal) /\ options.forceSyncOnIOs
  IN [s2 EXCEPT
        !.hist.idleReplaceChanged =
           @ \/ (~Effective(s, newGlobal) /\ ProgOf(s2) # ProgOf(s)),
        !.hist.sync = [made |-> made, passed |-> s2.hist.syncMark.passed,
                       read |-> s2.hist.syncMark.read, arg |-> newGlobal],
        !.hist.syncFlip = IF made THEN ~@ ELSE @,
        !.hist.callFlip = ~@]

TrkOff(s) == [s EXCEPT !.hist.trk = NoTrk]

\* The history of a drain is kept until the next top-level call.
ForgetDrain ==
  /\ log' = <<>> /\ dispatched' = <<>> /\ outcome' = "none"
  /\ UNCHANGED <<actionQueue, stack, lastThrow>>

(* ------------------------- top-level operations ----------------------- *)
Idle == stack = <<>>

\* setGlobal(newGlobal, options), called by external code or by a handler's
\* continuation after its promise resolved
SetGlobal(optionsSet) ==
  /\ Idle
  /\ \E newGlobal \in Globals \cup {Undefined}, options \in optionsSet :
       Commit(Replace(TrkOff(St), newGlobal, options))
  /\ ForgetDrain
  /\ UNCHANGED actionHandlers

\* forceOnHeavyAnimationOnce()
ForceOnHeavyAnimationOnce ==
  /\ Idle
  /\ forceOnHeavyAnimation' = TRUE
  /\ hist' = Recorded([hist EXCEPT !.bypasses = 0,
                                    !.plainWait = IF @ = "clean" THEN "primed" ELSE @])
  /\ ForgetDrain
  /\ UNCHANGED <<currentGlobal, containers, callbacks, waiting, isHeavyAnimating,
                 onceIdle, actionHandlers>>

\* The tick ends: the scheduled run of the throttled runCallbacks.
TickEnd ==
  /\ Idle
  /\ waiting
  /\ \E s2 \in {RunCallbacks([St EXCEPT !.waiting = FALSE, !.hist.runs = 0])} :
       Commit([s2 EXCEPT
         !.hist.lastTick = [reqs |-> hist.reqs, runs |-> s2.hist.runs,
                            passed |-> ~s2.hist.deferred],
         !.hist.reqs = 0, !.hist.syncs = 0, !.hist.runs = 0])
  /\ ForgetDrain
  /\ UNCHANGED actionHandlers

\* A heavy animation begins: the gate reports busy.
HeavyAnimationBegin ==
  /\ Idle
  /\ ~isHeavyAnimating
  /\ isHeavyAnimating' = TRUE
  /\ ForgetDrain
  /\ UNCHANGED <<currentGlobal, forceOnHeavyAnimation, containers, callbacks, waiting,
                 onceIdle, hist, actionHandlers>>

\* The last heavy animation ends: the gate reports idle and calls every
\* once() registration.
HeavyAnimationEnd ==
  /\ Idle
  /\ isHeavyAnimating
  /\ LET s1 == [St EXCEPT !.isHeavyAnimating = FALSE, !.onceIdle = 0,
                          !.hist.plainWait = "no"]
     IN Commit(IF onceIdle > 0 THEN RunCallbacksThrottled(s1) ELSE s1)
  /\ ForgetDrain
  /\ UNCHANGED actionHandlers

(* ------------------------- Subscription Registry ---------------------- *)
Ids == 1..MaxContainers
IndexOf(cs, id) == CHOOSE i \in 1..Len(cs) : cs[i].id = id
Mounted(cs) == {cs[i].id : i \in 1..Len(cs)}

\* A faulty variant: nothing is derived for a container that is not active,
\* even when it has no mappedProps.
TeactNContainerGated(cs0, global, id, mapper, activationFn, props) ==
  LET cs == IF id \in Mounted(cs0) THEN cs0
            ELSE Append(cs0, [id |-> id, mapStateToProps |-> mapper,
                              activationFn |-> activationFn, stuckTo |-> Empty,
                              first |-> Empty,
                              ownProps |-> props, hasMapped |-> FALSE,
                              mappedProps |-> {}, last |-> NotVisited,
                              render |-> NoRender])
      i == IndexOf(cs, id)
      changed == ~ArePropsShallowEqual(cs[i].ownProps, props)
      a == ActivateContainer(cs[i], global, props)
      c == a.container
      derive == a.result /\ (~c.hasMapped \/ changed)
      newMappedProps == MapStateToProps(c.mapStateToProps, global, props)
      threw == derive /\ MapperThrows(c.mapStateToProps, global, props)
      d == IF derive /\ ~threw
           THEN [c EXCEPT !.mappedProps = newMappedProps, !.hasMapped = TRUE]
           ELSE c
  IN [cs EXCEPT ![i] = [d EXCEPT
        !.ownProps = props,
        !.render = [done |-> TRUE, props |-> props, had |-> cs[i].hasMapped,
                    before |-> cs[i].mappedProps, derived |-> derive,
                    reported |-> IF threw THEN 1 ELSE 0, global |-> global,
                    own |-> cs[i].ownProps, stuck |-> cs[i].stuckTo]]]

\* A faulty variant: a throwing mapper ends the render.
TeactNContainerRaise(cs0, global, id, mapper, activationFn, props) ==
  LET cs == IF id \in Mounted(cs0) THEN cs0
            ELSE Append(cs0, [id |-> id, mapStateToProps |-> mapper,
                              activationFn |-> activationFn, stuckTo |-> Empty,
                              first |-> Empty,
                              ownProps |-> props, hasMapped |-> FALSE,
                              mappedProps |-> {}, last |-> NotVisited,
                              render |-> NoRender])
      i == IndexOf(cs, id)
      changed == ~ArePropsShallowEqual(cs[i].ownProps, props)
      a == IF cs[i].hasMapped /\ changed
           THEN ActivateContainer(cs[i], global, props)
           ELSE [container |-> cs[i], result |-> FALSE]
      c == a.container
      derive == ~c.hasMapped \/ (changed /\ a.result)
      newMappedProps == MapStateToProps(c.mapStateToProps, global, props)
      threw == derive /\ MapperThrows(c.mapStateToProps, global, props)
      d == IF derive /\ ~threw
           THEN [c EXCEPT !.mappedProps = newMappedProps, !.hasMapped = TRUE]
           ELSE c
  IN [cs EXCEPT ![i] = [d EXCEPT
        !.ownProps = IF threw THEN @ ELSE props,
        !.render = [done |-> TRUE, props |-> props, had |-> cs[i].hasMapped,
                    before |-> cs[i].mappedProps, derived |-> derive,
                    reported |-> IF threw THEN 1 ELSE 0, global |-> global,
                    own |-> cs[i].ownProps, stuck |-> cs[i].stuckTo]]]

\* function TeactNContainer(props), for the container of `id`: it is created
\* at the end of the registry if it is not there, its props are derived if it
\* has none or if the own props changed and it is active, and the own props
\* are stored.
TeactNContainer(cs0, global, id, mapper, activationFn, props) ==
  LET cs == IF id \in Mounted(cs0) THEN cs0
            ELSE Append(cs0, [id |-> id, mapStateToProps |-> mapper,
                              activationFn |-> activationFn, stuckTo |-> Empty,
                              first |-> Empty,
                              ownProps |-> props, hasMapped |-> FALSE,
                              mappedProps |-> {}, last |-> NotVisited,
                              render |-> NoRender])
      i == IndexOf(cs, id)
      changed == ~ArePropsShallowEqual(cs[i].ownProps, props)
      a == IF cs[i].hasMapped /\ changed
           THEN ActivateContainer(cs[i], global, props)
           ELSE [container |-> cs[i], result |-> FALSE]
      c == a.container
      derive == ~c.hasMapped \/ (changed /\ a.result)
      newMappedProps == MapStateToProps(c.mapStateToProps, global, props)
      threw == derive /\ MapperThrows(c.mapStateToProps, global, props)
      d == IF derive /\ ~threw
           THEN [c EXCEPT !.mappedProps = newMappedProps, !.hasMapped = TRUE]
           ELSE c
  IN [cs EXCEPT ![i] = [d EXCEPT
        !.ownProps = props,
        !.render = [done |-> TRUE, props |-> props, had |-> cs[i].hasMapped,
                    before |-> cs[i].mappedProps, derived |-> derive,
                    reported |-> IF threw THEN 1 ELSE 0, global |-> global,
                    own |-> cs[i].ownProps, stuck |-> cs[i].stuckTo]]]

\* The records of the last pass and of the last render are kept until the
\* registry is next touched.
ForgetPass(cs) ==
  [i \in 1..Len(cs) |-> [cs[i] EXCEPT !.last = NotVisited, !.render = NoRender]]

\* The record of a render, with the stickToFirst calls made in it, is kept by
\* the specifications that watch renders; what the container had when the
\* render began, by those that watch derivations.
Kept(cs) ==
  IF "render" \notin hist.watch THEN ForgetPass(cs)
  ELSE IF "derive" \in hist.watch THEN cs
  ELSE [i \in 1..Len(cs) |->
          [cs[i] EXCEPT !.render.global = NoRender.global,
                        !.render.own = NoRender.own,
                        !.render.stuck = NoRender.stuck]]

\* A subscriber is rendered for the first time, under one of `ids`.
MountWith(mappers, activationFns, propsSet, ids) ==
  /\ Idle
  /\ \E id \in ids \ Mounted(containers), mapper \in mappers,
        activationFn \in activationFns, props \in propsSet :
       containers' = Kept(TeactNContainer(ForgetPass(containers), currentGlobal,
                                          id, mapper, activationFn, props))
  /\ ForgetDrain
  /\ UNCHANGED <<currentGlobal, forceOnHeavyAnimation, callbacks, waiting,
                 isHeavyAnimating, onceIdle, hist, actionHandlers>>

Mount(mappers, activationFns) ==
  MountWith(mappers, activationFns, OwnPropsSet, Ids)

\* The id of the next subscriber when ids are given out in order, up to `max`.
NextId(max) == {Len(containers) + 1} \cap 1..max

\* A mounted subscriber is rendered again: after forceUpdate, or by its parent
\* with other props.
Render ==
  /\ Idle
  /\ \E id \in Mounted(containers), props \in OwnPropsSet :
       LET c == containers[IndexOf(containers, id)]
       IN containers' = Kept(TeactNContainer(ForgetPass(containers), currentGlobal,
                            id, c.mapStateToProps, c.activationFn, props))
  /\ ForgetDrain
  /\ UNCHANGED <<currentGlobal, forceOnHeavyAnimation, callbacks, waiting,
                 isHeavyAnimating, onceIdle, hist, actionHandlers>>

\* export function addCallback(cb)
AddCallback(cbs) ==
  /\ Idle
  /\ Len(callbacks) <= MaxCallbacks
  /\ \E cb \in cbs : callbacks' = Push(callbacks, cb)
  /\ ForgetDrain
  /\ UNCHANGED <<currentGlobal, forceOnHeavyAnimation, containers, waiting,
                 isHeavyAnimating, onceIdle, hist, actionHandlers>>

\* export function removeCallback(cb)
RemoveCallback(cbs) ==
  /\ Idle
  /\ \E cb \in cbs : callbacks' = Splice(callbacks, cb)
  /\ ForgetDrain
  /\ UNCHANGED <<currentGlobal, forceOnHeavyAnimation, containers, waiting,
                 isHeavyAnimating, onceIdle, hist, actionHandlers>>

\* A faulty variant: the cleanup leaves the container in the registry.
UnmountKeep ==
  /\ Idle
  /\ \E id \in Mounted(containers) :
       /\ containers' = ForgetPass(containers)
       /\ hist' = Recorded([hist EXCEPT !.gone = @ \cup {id}])
  /\ ForgetDrain
  /\ UNCHANGED <<currentGlobal, forceOnHeavyAnimation, callbacks, waiting,
                 isHeavyAnimating, onceIdle, actionHandlers>>

\* useUnmountCleanup(() => containers.delete(id))
Unmount ==
  /\ Idle
  /\ \E id \in Mounted(containers) :
       /\ containers' = ForgetPass(SelectSeq(containers, LAMBDA c : c.id # id))
       /\ hist' = Recorded([hist EXCEPT !.gone = @ \cup {id}])
  /\ ForgetDrain
  /\ UNCHANGED <<currentGlobal, forceOnHeavyAnimation, callbacks, waiting,
                 isHeavyAnimating, onceIdle, actionHandlers>>

(* --------------------------- Action Dispatcher ------------------------ *)
Registered == Len(actionHandlers["A"]) + Len(actionHandlers["B"])

\* export function addUntypedActionHandler(name, handler): the handlers of a
\* name are numbered in the order they are registered.
AddUntypedActionHandler ==
  /\ Idle
  /\ Registered < MaxHandlers
  /\ \E name \in Names :
       actionHandlers' = [actionHandlers EXCEPT ![name] = Append(@, Len(@) + 1)]
  /\ ForgetDrain
  /\ UNCHANGED <<progVars, hist>>

\* actions[name] exists once a handler was registered under name.
HasAction(name) == actionHandlers[name] # <<>>

\* A faulty variant: the closure is put in front of the queue.
EnqueueFront(q, c) == <<c>> \o q

\* actionQueue.push(() => ...)
Enqueue(q, c) == Append(q, c)

\* A faulty variant: every dispatch starts a drain loop.
ShouldDrainAlways(q) == Len(q) >= 1

\* if (actionQueue.length === 1)
ShouldDrain(q) == Len(q) = 1

\* A faulty variant: no cleanup block.
AfterDrainKeep(q) == q

\* finally { actionQueue = [] }
AfterDrain(q) == <<>>

\* A faulty variant: the closure queued last is moved to the front.
ShiftNewest(q) ==
  IF Len(q) <= 1 THEN <<>>
  ELSE <<q[Len(q)]>> \o SubSeq(q, 2, Len(q) - 1)

\* actionQueue.shift()
Shift(q) == IF q = <<>> THEN q ELSE Tail(q)

\* The drain loop calls actionQueue[0]: its forEach invokes the first handler.
Frame(c) == [id |-> c.id, name |-> c.name, options |-> c.options, h |-> 1]

\* A faulty variant: every handler of a drain receives the state that the
\* first one received.
InvocationFirst(f, global) ==
  [id |-> f.id, handler |-> actionHandlers[f.name][f.h],
   global |-> IF f.id = 1 /\ f.h = 1 THEN global ELSE log[1].global]

\* handler(currentGlobal, actions, payload) is invoked.
Invocation(f, global) ==
  [id |-> f.id, handler |-> actionHandlers[f.name][f.h], global |-> global]

Top == stack[Len(stack)]

\* function handleAction(name, payload, options), up to the first handler's
\* invocation; handler number `by` of dispatch `parent` made the call (0: none).
HandleAction(parent, by, name, options, dispatched0, log0) ==
  LET c == [id |-> Len(dispatched0) + 1, name |-> name, options |-> options]
      q == Enqueue(actionQueue, c)
      f == Frame(Head(q))
  IN /\ actionQueue' = q
     /\ dispatched' = Append(dispatched0, [name |-> name, parent |-> parent, by |-> by])
     /\ IF ShouldDrain(q)
        THEN /\ stack' = Append(stack, f)
             /\ log' = Append(log0, Invocation(f, currentGlobal))
        ELSE /\ stack' = stack
             /\ log' = log0

\* actions[name](payload, options), called by external code.
Dispatch(optionsSet) ==
  /\ Idle
  /\ \E name \in Names, options \in optionsSet :
       /\ HasAction(name)
       /\ HandleAction(0, 0, name, options, <<>>, <<>>)
  /\ outcome' = IF stack' = <<>> THEN "returned" ELSE "running"
  /\ hist' = Recorded([hist EXCEPT !.trk = NoTrk, !.drainPass = "none",
                                    !.ret = NoRet])
  /\ UNCHANGED <<progVars, actionHandlers, lastThrow>>

\* The running handler calls actions[name](payload, options), in a drain of
\* fewer than `max` dispatches.
HandlerDispatchUpTo(optionsSet, max) ==
  /\ ~Idle
  /\ Len(dispatched) < max
  /\ \E name \in Names, options \in optionsSet :
       /\ HasAction(name)
       /\ HandleAction(Top.id, Top.h, name, options, dispatched, log)
  /\ UNCHANGED <<progVars, hist, actionHandlers, outcome, lastThrow>>

HandlerDispatch(optionsSet) == HandlerDispatchUpTo(optionsSet, MaxChain)

\* The dispatch is the one that is followed: a top-level dispatch of a name with a
\* sole handler, which dispatches nothing and returns a new state object.
SoleHandlerReturns(response) ==
  /\ Len(stack) = 1
  /\ Top.id = 1
  /\ Len(dispatched) = 1
  /\ Len(actionHandlers[Top.name]) = 1
  /\ Effective(St, response)

Track(s, response) ==
  IF SoleHandlerReturns(response)
  THEN [s EXCEPT !.hist.trk =
         [on |-> TRUE, quiet |-> ~s.waiting /\ s.onceIdle = 0, passes |-> 0,
          new |-> response, ok |-> TRUE]]
  ELSE s

\* A faulty variant: the state the drain began with is put back.
HandlerThrowsUndo ==
  /\ ~Idle
  /\ actionQueue' = AfterDrain(actionQueue)
  /\ stack' = <<>>
  /\ outcome' = "threw"
  /\ lastThrow' = IF Len(actionQueue) >= 2 THEN 2 ELSE 1
  /\ currentGlobal' = log[1].global
  /\ UNCHANGED <<forceOnHeavyAnimation, containers, callbacks, waiting,
                 isHeavyAnimating, onceIdle, hist, actionHandlers, log, dispatched>>

\* The running handler throws: the exception leaves every drain loop through
\* its finally block and reaches the caller of the outermost dispatch.
HandlerThrows ==
  /\ ~Idle
  /\ actionQueue' = AfterDrain(actionQueue)
  /\ stack' = <<>>
  /\ outcome' = "threw"
  /\ lastThrow' = IF Len(actionQueue) >= 2 THEN 2 ELSE 1
  /\ UNCHANGED <<progVars, hist, actionHandlers, log, dispatched>>

\* The running handler returns `response`: it is applied, then forEach invokes
\* the closure's next handler, or the loop shifts the queue and calls the next
\* closure, or the loop ends.
HandlerReturns(responses) ==
  /\ ~Idle
  /\ \E response \in responses :
       \E f \in {Top},
          r \in {IF response \in Globals
                 THEN Replace(Track([St EXCEPT !.hist.passMark = FALSE], response),
                              response, Top.options)
                 ELSE [St EXCEPT !.hist.passMark = FALSE]} :
       LET s == [r EXCEPT
                   !.hist.drainPass =
                     IF ~r.hist.passMark THEN @
                     ELSE IF f.options.forceSyncOnIOs THEN "sync" ELSE "other",
                   !.hist.ret =
                     [response |-> response, options |-> Head(actionQueue).options,
                      before |-> currentGlobal, after |-> r.currentGlobal,
                      called |-> r.hist.callFlip # hist.callFlip,
                      arg |-> IF r.hist.callFlip # hist.callFlip
                              THEN r.hist.sync.arg ELSE NoGlobal,
                      passed |-> r.hist.passMark,
                      force |-> r.forceOnHeavyAnimation,
                      waiting |-> r.waiting]]
           q == Shift(actionQueue)
           below == SubSeq(stack, 1, Len(stack) - 1)
       IN /\ Commit(s)
          /\ IF f.h < Len(actionHandlers[f.name])
             THEN LET g == [f EXCEPT !.h = f.h + 1]
                  IN /\ stack' = Append(below, g)
                     /\ log' = Append(log, Invocation(g, s.currentGlobal))
                     /\ actionQueue' = actionQueue
                     /\ outcome' = outcome
             ELSE IF q # <<>>
             THEN LET g == Frame(Head(q))
                  IN /\ stack' = Append(below, g)
                     /\ log' = Append(log, Invocation(g, s.currentGlobal))
                     /\ actionQueue' = q
                     /\ outcome' = outcome
             ELSE /\ stack' = below
                  /\ log' = log
                  /\ actionQueue' = AfterDrain(q)
                  /\ outcome' = IF below = <<>> THEN "returned" ELSE outcome
  /\ UNCHANGED <<actionHandlers, dispatched, lastThrow>>

(* ---------------------------- specification --------------------------- *)
\* The state after the module was loaded and `handlers` were registered.
InitWith(handlers, watch) ==
  /\ currentGlobal = "G0"
  /\ forceOnHeavyAnimation = TRUE
  /\ actionHandlers = handlers
  /\ actionQueue = <<>>
  /\ containers = <<>>
  /\ callbacks = <<"updateContainers">>
  /\ waiting = FALSE
  /\ isHeavyAnimating = FALSE
  /\ onceIdle = 0
  /\ stack = <<>>
  /\ hist = [HistInit EXCEPT !.watch = watch]
  /\ log = <<>>
  /\ dispatched = <<>>
  /\ outcome = "none"
  /\ lastThrow = 0

NoHandlers == [n \in Names |-> <<>>]

\* The scheduler and the gate under external replaces.
InitSched == InitWith(NoHandlers, {"cell", "tick", "gate", "pass"})

NextSched ==
  \/ SetGlobal(OptionsSet)
  \/ ForceOnHeavyAnimationOnce
  \/ TickEnd
  \/ HeavyAnimationBegin
  \/ HeavyAnimationEnd

SpecSched == InitSched /\ [][NextSched]_vars

\* The dispatcher: handlers return nothing, a promise or a state, or throw.
InitDisp == InitWith(NoHandlers, {})

NextDisp ==
  \/ AddUntypedActionHandler
  \/ Dispatch({NoOptions})
  \/ HandlerDispatch({NoOptions})
  \/ HandlerThrows
  \/ HandlerReturns({Void, Promise, "G1"})

SpecDisp == InitDisp /\ [][NextDisp]_vars

\* The scheduler under the claim's hypotheses: a tick ends, a heavy animation
\* ends, and a tick that can end with the gate idle again and again does so.
InitLive == InitWith(NoHandlers, {"gate", "pass"})

NextLive ==
  \/ SetGlobal({NoOptions})
  \/ ForceOnHeavyAnimationOnce
  \/ TickEnd
  \/ HeavyAnimationBegin
  \/ HeavyAnimationEnd

SpecLive ==
  /\ InitLive /\ [][NextLive]_vars
  /\ WF_vars(TickEnd)
  /\ WF_vars(HeavyAnimationEnd)
  /\ SF_vars(TickEnd /\ ~isHeavyAnimating)

\* Dispatches, external replaces, the scheduler and the gate together, after
\* addActionHandler("A", h1), ("B", h1), ("B", h2).
InitProp ==
  InitWith([n \in Names |-> IF n = "A" THEN <<1>> ELSE <<1, 2>>], {"trk"})

NextProp ==
  \/ Dispatch(OptionsSet)
  \/ HandlerReturns({Void, "G1", "G2"})
  \/ SetGlobal(OptionsSet)
  \/ ForceOnHeavyAnimationOnce
  \/ TickEnd
  \/ HeavyAnimationBegin
  \/ HeavyAnimationEnd

SpecProp == InitProp /\ [][NextProp]_vars

\* Dispatches with every option, from outside and from handlers, whose handlers
\* return new state objects.
InitDrain ==
  InitWith([n \in Names |-> IF n = "A" THEN <<1>> ELSE <<1, 2>>], {"drain"})

NextDrain ==
  \/ Dispatch(OptionsSet)
  \/ HandlerDispatch({NoOptions, SyncOptions})
  \/ HandlerReturns({Void, "G1"})
  \/ TickEnd

SpecDrain == InitDrain /\ [][NextDrain]_vars

\* Dispatches with every option, of names with one or several handlers, which
\* return nothing, a promise or a state object.
InitHand == InitWith(NoHandlers, {"resp"})

NextHand ==
  \/ AddUntypedActionHandler
  \/ Dispatch(OptionsSet)
  \/ HandlerReturns({Void, Promise, "G1", "G2"})
  \/ TickEnd

SpecHand == InitHand /\ [][NextHand]_vars

\* Drains of up to MaxChain + 1 dispatches, after addActionHandler("A", h1),
\* ("B", h1), ("B", h2); no handler throws.
InitFifo ==
  InitWith([n \in Names |-> IF n = "A" THEN <<1>> ELSE <<1, 2>>], {})

NextFifo ==
  \/ Dispatch({NoOptions})
  \/ HandlerDispatchUpTo({NoOptions}, MaxChain + 1)
  \/ HandlerReturns({Void, "G1"})

SpecFifo == InitFifo /\ [][NextFifo]_vars

\* Subscribers with and without activationFn whose props depend on their own
\* props, rendered again with the same or with other props, between passes.
InitDerive == InitWith(NoHandlers, {"render", "derive"})

NextDerive ==
  \/ MountWith({"own"}, {"none", "open", "stick"}, {{<<"x", 1>>}},
               NextId(MaxContainers))
  \/ Render
  \/ SetGlobal({NoOptions})

SpecDerive == InitDerive /\ [][NextDerive]_vars

\* Drains in which handlers return state objects, dispatch and throw, after
\* addActionHandler("A", h1), ("B", h1), ("B", h2).
InitThrow ==
  InitWith([n \in Names |-> IF n = "A" THEN <<1>> ELSE <<1, 2>>], {"resp"})

NextThrow ==
  \/ Dispatch({NoOptions})
  \/ HandlerDispatch({NoOptions})
  \/ HandlerReturns({Void, "G1"})
  \/ HandlerThrows

SpecThrow == InitThrow /\ [][NextThrow]_vars

\* Subscribers that mount under ids never given twice (useUniqueId) and
\* unmount, under replaces and passes.
InitGone == InitWith(NoHandlers, {"reg"})

NextGone ==
  \/ MountWith({"count"}, {"none", "stick"}, {{<<"x", 0>>}},
               {n \in Ids : n = Len(containers) + Cardinality(hist.gone) + 1})
  \/ Render
  \/ Unmount
  \/ SetGlobal({NoOptions})
  \/ TickEnd

SpecGone == InitGone /\ [][NextGone]_vars

\* Subscribers under replaces and recompute passes.
InitPass == InitWith(NoHandlers, {})

NextPass ==
  \/ Mount({"count", "keys"}, {"none"})
  \/ Render
  \/ Unmount
  \/ SetGlobal({NoOptions})
  \/ TickEnd

SpecPass == InitPass /\ [][NextPass]_vars

\* Subscribers mounted in order, one kind of which throws on G1, and a callback
\* after updateContainers.
InitErr == InitWith(NoHandlers, {"err", "cb"})

NextErr ==
  \/ MountWith({"count", "fails"}, {"none"}, {{<<"x", 0>>}}, NextId(MaxContainers + 1))
  \/ AddCallback({"log"})
  \/ SetGlobal({NoOptions})
  \/ TickEnd

SpecErr == InitErr /\ [][NextErr]_vars

\* Subscribers whose activationFn sticks to the open chat.
InitStick == InitWith(NoHandlers, {"pass"})

NextStick ==
  \/ MountWith({"count"}, {"stick", "stickTwice"}, {{<<"x", 0>>}}, NextId(MaxContainers))
  \/ Render
  \/ SetGlobal({NoOptions})
  \/ TickEnd

SpecStick == InitStick /\ [][NextStick]_vars

\* Subscribers with and without activationFn, rendered with other props,
\* under replaces and passes.
InitFresh == InitWith(NoHandlers, {"pass", "render"})

NextFresh ==
  \/ MountWith({"keys"}, {"none"}, OwnPropsSet, NextId(MaxContainers))
  \/ MountWith({"own"}, {"open"}, OwnPropsSet, NextId(MaxContainers))
  \/ Render
  \/ SetGlobal({NoOptions})
  \/ TickEnd

SpecFresh == InitFresh /\ [][NextFresh]_vars

\* Subscribers whose mapper throws on G1, rendered with other props.
InitRender == InitWith(NoHandlers, {"render"})

NextRender ==
  \/ MountWith({"fails"}, {"none"}, OwnPropsSet, NextId(MaxContainers))
  \/ Render
  \/ SetGlobal({NoOptions})
  \/ TickEnd

SpecRender == InitRender /\ [][NextRender]_vars

\* Callbacks added and removed, from outside and by callbacks during a pass.
InitCb == InitWith(NoHandlers, {"cb"})

NextCb ==
  \/ AddCallback(CallbackFns)
  \/ RemoveCallback(CallbackFns)
  \/ SetGlobal({NoOptions})
  \/ TickEnd

SpecCb == InitCb /\ [][NextCb]_vars

\* Subscribers under replaces with every option, with and without a heavy
\* animation.
InitSync == InitWith(NoHandlers, {"sync"})

NextSync ==
  \/ MountWith({"count"}, {"none"}, {{<<"x", 0>>}}, NextId(MaxContainers))
  \/ SetGlobal(OptionsSet)
  \/ TickEnd
  \/ HeavyAnimationBegin
  \/ HeavyAnimationEnd

SpecSync == InitSync /\ [][NextSync]_vars

\* Everything that runs a pass or replaces the state: dispatches whose handlers
\* return state objects, external replaces, tick ends and the gate, over
\* subscribers.
InitCell ==
  InitWith([n \in Names |-> IF n = "A" THEN <<1>> ELSE <<1, 2>>], {"sync"})

NextCell ==
  \/ MountWith({"count"}, {"none"}, {{<<"x", 0>>}}, NextId(MaxContainers))
  \/ Dispatch({NoOptions, SyncOptions})
  \/ HandlerReturns({Void, "G1"})
  \/ SetGlobal({NoOptions})
  \/ TickEnd
  \/ HeavyAnimationBegin
  \/ HeavyAnimationEnd

SpecCell == InitCell /\ [][NextCell]_vars

(* ============================== claims ================================ *)
\* The handlers invoked for dispatch d, in the order of their invocation.
Ran(d) ==
  LET own == SelectSeq(log, LAMBDA e : e.id = d)
  IN [k \in 1..Len(own) |-> own[k].handler]

\* Every handler of every dispatch of the drain was invoked exactly once, in
\* registration order.
AllRanOnce ==
  \A d \in 1..Len(dispatched) : Ran(d) = actionHandlers[dispatched[d].name]

\* C1: a dispatch B made by a handler of A runs none of its handlers before
\* every handler of A was invoked (and, one handler running at a time, had
\* returned); when the outermost dispatch has returned the queue is empty and
\* every handler of every dispatch of the drain has run exactly once.
C1_ReentrantDispatch ==
  /\ \A i \in 1..Len(log) :
       LET a == dispatched[log[i].id].parent
       IN a # 0 =>
            /\ Len(SelectSeq(SubSeq(log, 1, i - 1), LAMBDA e : e.id = a))
                 = Len(actionHandlers[dispatched[a].name])
            /\ \A j \in 1..Len(log) : log[j].id = a => j < i
  /\ outcome = "returned" => actionQueue = <<>> /\ Idle /\ AllRanOnce

\* A handler of A that was not A's last dispatched B, and the drain returned.
C1_Witness ==
  /\ outcome = "returned"
  /\ \E d \in 1..Len(dispatched) :
       /\ dispatched[d].parent # 0
       /\ dispatched[d].by < Len(actionHandlers[dispatched[dispatched[d].parent].name])
       /\ Ran(d) # <<>>

\* C2: at most one drain loop is active; while it runs, the closure being run
\* is the head of the queue and dispatches made by handlers are behind it.
C2_SingleDrain ==
  /\ Len(stack) <= 1
  /\ ~Idle => /\ actionQueue # <<>>
              /\ Head(actionQueue).id = Top.id
              /\ \A k \in 1..Len(actionQueue) :
                   actionQueue[k].id = Top.id + k - 1

\* A drain is running a closure that a handler dispatched from a closure that
\* a handler dispatched, with another dispatch queued behind it.
C2_Witness ==
  /\ ~Idle
  /\ Len(actionQueue) >= 1
  /\ \E d \in 1..Len(dispatched) :
       /\ dispatched[d].parent # 0
       /\ dispatched[dispatched[d].parent].parent # 0
       /\ Top.id = dispatched[d].parent

\* C3: after a handler threw, the queue is empty once the dispatch has unwound,
\* and every later dispatch starts a drain at its own first handler and, when it
\* returns, has run all handlers of all its dispatches.
C3_ThrowLeavesQueueClean ==
  /\ outcome = "threw" => actionQueue = <<>> /\ Idle
  /\ (lastThrow > 0 /\ outcome \in {"running", "returned"}) =>
       /\ log # <<>>
       /\ log[1] = [id |-> 1, handler |-> actionHandlers[dispatched[1].name][1],
                    global |-> log[1].global]
  /\ (lastThrow > 0 /\ outcome = "returned") => actionQueue = <<>> /\ AllRanOnce

\* A handler threw with another dispatch queued behind it, and a later dispatch
\* has returned.
C3_Witness ==
  /\ lastThrow = 2
  /\ outcome = "returned"
  /\ log # <<>>

\* C4: the live state is the last replace argument that was a state object
\* other than the live one, and this is what read returns; a replace by the live
\* reference (or by no object) changes nothing: no state, no scheduled run, no
\* override, no pass.
C4_StateCell ==
  /\ GetUntypedGlobal(St) = hist.lastDistinct
  /\ ~hist.idleReplaceChanged

\* After a replace by a new reference, a replace by the live reference was
\* made and no run is scheduled.
C4_Witness ==
  /\ hist.lastCall = "same"
  /\ currentGlobal # "G0"
  /\ ~waiting

\* The state a pass read is the live one until the next replace.
PassReadLive == (hist.seen # NoGlobal /\ ~hist.dirty) => hist.seen = currentGlobal

\* C6: throttled requests run nothing before the tick ends (the only runs within
\* a tick are those of forceSyncOnIOs replaces); a run is due at the tick end
\* exactly when there was a request; the tick end runs runCallbacks once for
\* all of them, and a pass reads the state that is live when it runs.
C6_TickCoalescing ==
  /\ hist.runs = hist.syncs
  /\ waiting <=> hist.reqs > 0
  /\ hist.lastTick.reqs >= 1 => hist.lastTick.runs = 1
  /\ PassReadLive

\* A tick with two requests has ended in a pass that read the state set by the
\* last replace.
C6_Witness ==
  /\ hist.lastTick.reqs = 2
  /\ hist.lastTick.passed
  /\ ~hist.dirty
  /\ hist.seen = hist.lastDistinct
  /\ hist.seen # "G0"

\* C7, as claimed: while the gate is busy, after a replace without
\* forceOnHeavyAnimation (and without forceSyncOnIOs) no pass runs until the
\* gate reports idle or a replace with one of these options is made.
C7_AsClaimed == hist.plainWait # "no" => ~hist.passedInWait

\* C7, amended: the same when the override was clear at the replace and
\* forceOnHeavyAnimationOnce was not called since; and a replace with
\* forceOnHeavyAnimation is served by a pass by the end of its tick, whatever
\* the gate reports.
C7_Deferral ==
  /\ hist.plainWait = "clean" => ~hist.passedInWait
  /\ hist.urgentPending => waiting /\ forceOnHeavyAnimation

\* An urgent replace was served while the gate was busy, and the tick of a later
\* plain replace has ended without a pass.
C7_Witness ==
  /\ hist.urgentServedBusy
  /\ isHeavyAnimating
  /\ hist.plainWait = "clean"
  /\ hist.deferred
  /\ ~waiting
  /\ hist.dirty

\* C9: after the override was set (initially, by a replace with
\* forceOnHeavyAnimation or forceSyncOnIOs, by forceOnHeavyAnimationOnce), at
\* most one pass runs while the gate is busy, and it clears the override.
C9_OverrideOnce ==
  /\ hist.bypasses <= 1
  /\ hist.bypasses = 1 => ~forceOnHeavyAnimation

\* One pass went through the busy gate and the run for a later replace was
\* deferred.
C9_Witness ==
  /\ hist.bypasses = 1
  /\ isHeavyAnimating
  /\ hist.deferred
  /\ hist.dirty

\* C8: a deferred run is registered with the gate (or, the gate having reported
\* idle, due at the tick end), a replaced state no pass has read has a run due
\* or registered, and it is eventually read by a pass.
C8_DeferredNotLost ==
  /\ [](hist.deferred => (onceIdle > 0 \/ waiting))
  /\ [](hist.dirty => (onceIdle > 0 \/ waiting))
  /\ (hist.dirty ~> (~hist.dirty /\ hist.seen = currentGlobal))

\* A run was deferred and is registered with the busy gate.
C8_Witness ==
  /\ hist.deferred
  /\ hist.dirty
  /\ isHeavyAnimating
  /\ onceIdle > 0
  /\ ~waiting

GateAsClaimed(c) ==
  IF c.last.got = c.last.before
  THEN c.last.notified = 0 /\ c.mappedProps = c.last.before
  ELSE c.last.notified = 1 /\ c.mappedProps = c.last.got

\* The same, with props without keys leaving the container alone as well.
GateAmended(c) ==
  IF c.last.got = c.last.before \/ c.last.got = {}
  THEN c.last.notified = 0 /\ c.mappedProps = c.last.before
  ELSE c.last.notified = 1 /\ c.mappedProps = c.last.got

\* C10, as claimed.
C10_AsClaimed ==
  \A i \in 1..Len(containers) :
    (containers[i].last.visited /\ containers[i].hasMapped) =>
      GateAsClaimed(containers[i])

\* C10, amended: in a pass, a visited container whose mapper returns props with
\* the keys and values of the stored ones, or props without keys, keeps its
\* props and is not notified; with any other props the new ones are stored and
\* forceUpdate is called once.
C10_ShallowEqualityGate ==
  \A i \in 1..Len(containers) :
    (containers[i].last.visited /\ containers[i].hasMapped) =>
      GateAmended(containers[i])

\* The last pass notified one container for two changed keys and left alone
\* another whose props were the same for another state object.
C10_Witness ==
  \E i, j \in 1..Len(containers) :
    /\ containers[i].last.visited /\ containers[j].last.visited
    /\ containers[i].last.notified = 1
    /\ containers[i].last.before = {<<"a", 0>>}
    /\ containers[i].mappedProps = {<<"a", 1>>, <<"b", 1>>}
    /\ containers[j].last.notified = 0
    /\ containers[j].last.got = containers[j].last.before
    /\ containers[j].last.got # {}
    /\ hist.lastDistinct = "G0"

\* The last pass ended at container i, whose mapper threw.
ThrewAt(i) == i \in 1..Len(containers) /\ containers[i].last.threw

Untouched(c) ==
  ~c.last.visited /\ ~c.last.threw /\ c.last.notified = 0 /\ c.mappedProps = c.last.before

\* C11: when a container's mapper throws in a pass, the error is reported once,
\* the callbacks after updateContainers are still called (the error is not
\* raised to the caller), and no container after it is visited, notified or
\* changed.
C11_FailFastPass ==
  \A i \in 1..Len(containers) :
    ThrewAt(i) =>
      /\ hist.reported = 1
      /\ hist.cbRan = hist.cbStart
      /\ \A j \in (i + 1)..Len(containers) : Untouched(containers[j])

\* [X, Y, Z]: Y threw on G1, Z would have had other props, a callback ran.
C11_Witness ==
  /\ Len(containers) = 3
  /\ ThrewAt(2)
  /\ currentGlobal = "G1"
  /\ containers[3].mapStateToProps = "count"
  /\ containers[3].mappedProps = {<<"n", 0>>}
  /\ hist.cbRan = <<"updateContainers", "log">>

\* C12, as claimed: when a mapper throws in a pass, every other container has
\* the props it had before the pass.
C12_AsClaimed ==
  \A i \in 1..Len(containers) :
    ThrewAt(i) =>
      \A j \in 1..Len(containers) :
        j # i => containers[j].mappedProps = containers[j].last.before

\* C12, amended: when a mapper throws in a pass, the thrower and the containers
\* after it have the props they had before the pass; the containers before it
\* were visited as in any pass: props that differ (and have a key) were stored
\* and notified once.
C12_LastGoodProps ==
  \A i \in 1..Len(containers) :
    ThrewAt(i) =>
      /\ \A j \in i..Len(containers) :
           containers[j].mappedProps = containers[j].last.before
      /\ \A j \in 1..(i - 1) :
           containers[j].last.visited /\ GateAmended(containers[j])

\* [X, Y, Z]: Y threw on G1; X was given its props for G1 and notified, Z has
\* those of G0.
C12_Witness ==
  /\ Len(containers) = 3
  /\ ThrewAt(2)
  /\ containers[1].last.before = {<<"n", 0>>}
  /\ containers[1].mappedProps = {<<"n", 1>>}
  /\ containers[1].last.notified = 1
  /\ containers[3].mapStateToProps = "count"
  /\ containers[3].mappedProps = {<<"n", 0>>}

\* Container i was evaluated by the last pass with one call, stickToFirst of
\* the chat of the state the pass read.
Competes(i, chat) ==
  /\ i \in 1..Len(containers)
  /\ containers[i].activationFn = "stick"
  /\ containers[i].last.evaluated
  /\ ChatOf(hist.seen) = chat

\* The pass found container i active.
Active(i) == containers[i].last.visited

\* C13, as claimed: of two containers with the same activationFn that pass
\* "chat-1", the one evaluated second is not active.
C13_AsClaimed ==
  \A i, j \in 1..Len(containers) :
    (i < j /\ Competes(i, "chat-1") /\ Competes(j, "chat-1") /\ Active(i)) =>
      ~Active(j)

\* C13, amended: the latch is the container's own. A container that passes a
\* chat to stickToFirst is active exactly if the chat is the one it is stuck to
\* (which it is from this call on if it was stuck to none), whatever the other
\* containers pass or are stuck to.
C13_OwnLatch ==
  \A i \in 1..Len(containers) : \A chat \in {"chat-1", "chat-2"} :
    Competes(i, chat) => (Active(i) <=> containers[i].stuckTo = chat)

\* Two containers passed "chat-1" in the same pass; both are stuck to it and
\* both are active.
C13_Witness ==
  /\ Len(containers) = 2
  /\ Competes(1, "chat-1") /\ Competes(2, "chat-1")
  /\ Active(1) /\ Active(2)
  /\ containers[1].stuckTo = "chat-1" /\ containers[2].stuckTo = "chat-1"

\* The calls of stickToFirst the last pass made on a container.
Calls(c) == {c.last.calls[k] : k \in 1..Len(c.last.calls)}

\* A call answered as a latch would: truthy only for a non-empty candidate that
\* is the value held, or that is latched by this call as nothing was held.
LatchAnswer(call) ==
  call.result <=> (Truthy(call.stickTo) /\ (~Truthy(call.held) \/ call.held = call.stickTo))

Derived(c) == MapStateToProps(c.mapStateToProps, currentGlobal, c.ownProps)

\* The last pass read the live state, or nothing replaced the initial one.
Settled == ~hist.dirty

\* The activationFn of the container, if any, accepts its own props.
Accepted(c) ==
  c.activationFn = "none" \/ (c.activationFn = "open" /\ Get(c.ownProps, "x") = 1)

\* C15, as claimed: but between a replace and the next pass, every container
\* has the props derived from the live state and its own props.
C15_AsClaimed ==
  Settled => \A i \in 1..Len(containers) :
               containers[i].hasMapped /\ containers[i].mappedProps = Derived(containers[i])

\* C15, amended: but between a replace and the next pass, every container
\* without activationFn, or whose activationFn accepts, has the props derived
\* from the live state and its own props, unless a pass derived props without
\* keys, which it does not store.
C15_MappedPropsFresh ==
  Settled => \A i \in 1..Len(containers) :
               Accepted(containers[i]) =>
                 /\ containers[i].hasMapped
                 /\ \/ containers[i].mappedProps = Derived(containers[i])
                    \/ Derived(containers[i]) = {}

\* A pass read G1 and stored the props for it; another container was rendered
\* with other props and has the props derived from them.
C15_Witness ==
  /\ Settled /\ hist.seen = "G1" /\ currentGlobal = "G1"
  /\ \E i, j \in 1..Len(containers) :
       /\ containers[i].mapStateToProps = "keys"
       /\ containers[i].mappedProps = {<<"a", 1>>, <<"b", 1>>}
       /\ containers[j].mapStateToProps = "own"
       /\ containers[j].render.done
       /\ containers[j].render.before = {<<"v", 0>>}
       /\ containers[j].mappedProps = {<<"v", 1>>}

RenderThrew(c) == c.render.done /\ c.render.derived /\ c.render.reported > 0

\* C17: when the mapper throws in a render, the error is reported once, the
\* container has the mappedProps it had (or none, if it had none) and its
\* ownProps are the props of the render, as after any render.
C17_RenderFailure ==
  \A i \in 1..Len(containers) :
    /\ RenderThrew(containers[i]) =>
         /\ containers[i].render.reported = 1
         /\ containers[i].hasMapped = containers[i].render.had
         /\ containers[i].mappedProps = containers[i].render.before
    /\ containers[i].render.done => containers[i].ownProps = containers[i].render.props

\* A container with props was rendered with other props while its mapper
\* throws: it has the old mappedProps and the new ownProps.
C17_Witness ==
  \E i \in 1..Len(containers) :
    /\ RenderThrew(containers[i])
    /\ containers[i].render.had
    /\ containers[i].mappedProps = {<<"a", 1>>}
    /\ containers[i].ownProps = {<<"x", 1>>}
    /\ currentGlobal = "G1"

\* C18, as claimed: a pass calls updateContainers and then every callback that
\* was registered when it began, once each, in registration order.
C18_AsClaimed == hist.cbRan = hist.cbStart

\* C18, amended: a pass calls updateContainers first and makes no more calls
\* than callbacks were registered when it began; if no callback is removed
\* during the pass, it calls every callback that was registered when it began,
\* once each, in registration order, and none that was added during the pass.
C18_CallbackRegistry ==
  /\ hist.cbStart # <<>> => (hist.cbRan # <<>> /\ hist.cbRan[1] = "updateContainers")
  /\ Len(hist.cbRan) <= Len(hist.cbStart)
  /\ ~hist.cbRemoved => hist.cbRan = hist.cbStart

\* A pass called updateContainers and a callback that added another one, which
\* is registered and was not called.
C18_Witness ==
  /\ hist.cbStart = <<"updateContainers", "adder">>
  /\ hist.cbRan = <<"updateContainers", "adder">>
  /\ callbacks = <<"updateContainers", "adder", "log">>

\* The step is an effective replace with forceSyncOnIOs.
SyncReplace == hist'.syncFlip # hist.syncFlip

\* C19: when a replace with forceSyncOnIOs that changes the state returns, a
\* pass has read the new state, and every container has been mapped for it:
\* it has the props for the new state and was notified if they differ from
\* the ones it had.
C19_SyncPropagation ==
  [][SyncReplace =>
       /\ hist'.sync.passed
       /\ hist'.sync.read = currentGlobal'
       /\ currentGlobal' # currentGlobal
       /\ \A i \in 1..Len(containers') :
            /\ containers'[i].last.visited
            /\ containers'[i].last.got =
                 MapStateToProps(containers'[i].mapStateToProps, currentGlobal',
                                 containers'[i].ownProps)
            /\ containers'[i].mappedProps = containers'[i].last.got
            /\ containers'[i].last.notified =
                 IF containers[i].mappedProps = containers'[i].last.got THEN 0 ELSE 1]_vars

\* A replace with forceSyncOnIOs was made during a heavy animation with no run
\* due: a container has the props for the new state
\* and was notified.
C19_Witness ==
  /\ hist.sync.made /\ hist.sync.passed
  /\ hist.sync.read = "G1" /\ currentGlobal = "G1"
  /\ isHeavyAnimating /\ ~waiting /\ onceIdle = 0
  /\ \E i \in 1..Len(containers) :
       /\ containers[i].last.notified = 1
       /\ containers[i].last.before = {<<"n", 0>>}
       /\ containers[i].mappedProps = {<<"n", 1>>}

\* The step called setUntypedGlobal; the step ran a pass.
ReplaceCalled == hist'.callFlip # hist.callFlip
PassRan == hist'.passFlip # hist.passFlip

\* C20: the live state changes only in a step that calls setUntypedGlobal, and
\* then to the argument of the call; a step that runs a pass without such a
\* call leaves it as it is, and in every step that runs a pass the state the
\* pass read is the live state when the step ends.
C20_PassReadsOnly ==
  [][/\ currentGlobal' # currentGlobal =>
          (ReplaceCalled /\ currentGlobal' = hist'.sync.arg)
     /\ (PassRan /\ ~ReplaceCalled) => currentGlobal' = currentGlobal
     /\ PassRan => hist'.syncMark.read = currentGlobal']_vars

\* A pass at a tick end read G1, gave a container its props for G1 and
\* notified it; the live state is G1.
C20_Witness ==
  /\ hist.syncMark.passed /\ ~hist.sync.passed
  /\ hist.syncMark.read = "G1" /\ currentGlobal = "G1"
  /\ \E i \in 1..Len(containers) :
       /\ containers[i].last.notified = 1
       /\ containers[i].mappedProps = {<<"n", 1>>}

\* The handlers of dispatch d are invoked in registration order, none twice.
InOrder(d) ==
  LET hs == actionHandlers[dispatched[d].name]
  IN /\ Len(Ran(d)) <= Len(hs)
     /\ Ran(d) = SubSeq(hs, 1, Len(Ran(d)))

\* C21: a dispatch of a name runs every handler registered under the name, in
\* registration order; the running handler was given the live state, so that
\* a handler invoked after another returned a state object was given that
\* object; a return of nothing or of a promise makes no call of
\* setUntypedGlobal and leaves the state, any other return is passed to
\* setUntypedGlobal and is the state afterwards, and the options of the
\* dispatch take effect: with forceSyncOnIOs a pass runs before the next
\* handler, without it none does and a run is due at the tick end, with the
\* override set if forceOnHeavyAnimation was given.
C21_HandlersInOrder ==
  /\ \A d \in 1..Len(dispatched) : InOrder(d)
  /\ outcome = "returned" => AllRanOnce
  /\ ~Idle => /\ log # <<>>
              /\ log[Len(log)].global = currentGlobal
              /\ hist.ret.response \in Globals => log[Len(log)].global = hist.ret.response
  /\ hist.ret.response \in {Void, Promise} =>
       /\ ~hist.ret.called
       /\ hist.ret.after = hist.ret.before
       /\ ~hist.ret.passed
  /\ hist.ret.response \in Globals =>
       /\ hist.ret.called
       /\ hist.ret.arg = hist.ret.response
       /\ hist.ret.after = hist.ret.response
       /\ hist.ret.response # hist.ret.before =>
            /\ hist.ret.passed = hist.ret.options.forceSyncOnIOs
            /\ ~hist.ret.options.forceSyncOnIOs =>
                 /\ hist.ret.waiting
                 /\ hist.ret.options.forceOnHeavyAnimation => hist.ret.force

\* The second handler of a name runs after the first returned a new state
\* object, and a third after the second returned a promise.
C21_Witness ==
  /\ ~Idle
  /\ Len(log) >= 2
  /\ log[Len(log)].id = log[1].id
  /\ log[1].global # log[Len(log)].global
  /\ hist.ret.response \in {Promise} \cup Globals
  /\ hist.ret.before # "G0"
  /\ hist.ret.options.forceSyncOnIOs

\* C22: a subscriber that unmounted is not in the registry, and no pass that
\* ran afterwards evaluated its activationFn, called its mapStateToProps or
\* notified it.
C22_Unsubscribed ==
  /\ hist.gone \cap Mounted(containers) = {}
  /\ hist.late = {}
  /\ \A i \in 1..Len(containers) :
       (containers[i].last.evaluated \/ containers[i].last.visited
          \/ containers[i].last.notified > 0) => containers[i].id \notin hist.gone

\* A subscriber unmounted, and a later pass notified one that is still mounted.
C22_Witness ==
  /\ hist.gone # {}
  /\ \E i \in 1..Len(containers) : containers[i].last.notified > 0

\* The places in the log of the invocations of dispatch d's handlers.
At(d) == {i \in 1..Len(log) : log[i].id = d}

\* C23: the dispatches of a drain, numbered in the order they were queued, are
\* executed in that order: the log goes from one dispatch to the next one
\* queued, and only when every handler of the former was invoked; the queue
\* holds the running dispatch and the later ones, in order; when the outermost
\* dispatch has returned, every dispatch ran. If a handler dispatched B and
\* then C, every handler of B runs before any of C, and what the handlers of
\* B dispatched runs after C.
C23_GlobalFifo ==
  /\ log # <<>> => log[1].id = 1
  /\ \A i \in 1..(Len(log) - 1) :
       \/ log[i + 1].id = log[i].id
       \/ /\ log[i + 1].id = log[i].id + 1
          /\ Ran(log[i].id) = actionHandlers[dispatched[log[i].id].name]
  /\ ~Idle => /\ Len(actionQueue) = Len(dispatched) - Top.id + 1
              /\ \A k \in 1..Len(actionQueue) : actionQueue[k].id = Top.id + k - 1
  /\ outcome = "returned" => actionQueue = <<>> /\ AllRanOnce
  /\ \A b, c, d \in 1..Len(dispatched) :
       (/\ dispatched[b].parent # 0
        /\ dispatched[c].parent = dispatched[b].parent
        /\ b < c
        /\ dispatched[d].parent = b) =>
         /\ c < d
         /\ \A i \in At(b), j \in At(c), k \in At(d) : i < j /\ j < k

\* A handler dispatched B and then C, a handler of B dispatched D, and all of
\* them ran.
C23_Witness ==
  /\ outcome = "returned"
  /\ \E b, c, d \in 1..Len(dispatched) :
       /\ dispatched[b].parent # 0
       /\ dispatched[c].parent = dispatched[b].parent
       /\ b < c
       /\ dispatched[d].parent = b
       /\ dispatched[b].name = "B"
       /\ At(d) # {}

\* The container was active for the props of its last render: it has no
\* activationFn, or the props are those of an open one, or the open chat is
\* the one it is stuck to (or it was stuck to none).
ActiveAtRender(c) ==
  CASE c.activationFn = "none" -> TRUE
    [] c.activationFn = "open" -> Get(c.render.props, "x") = 1
    [] OTHER -> /\ Truthy(ChatOf(c.render.global))
                /\ ~Truthy(c.render.stuck) \/ c.render.stuck = ChatOf(c.render.global)

\* C24: a render calls mapStateToProps exactly when the container has no
\* mappedProps, whatever its activationFn says, or when the props of the
\* render differ from the stored ownProps and the container is active for
\* them; the result becomes the mappedProps; a render that does not call it
\* leaves the mappedProps; in all cases the props of the render are stored.
C24_RenderDerivation ==
  \A i \in 1..Len(containers) :
    LET c == containers[i]
        r == c.render
    IN r.done =>
         /\ r.derived <=> (~r.had \/ (~ArePropsShallowEqual(r.own, r.props)
                                       /\ ActiveAtRender(c)))
         /\ r.derived =>
              /\ c.hasMapped
              /\ c.mappedProps = MapStateToProps(c.mapStateToProps, r.global, r.props)
         /\ ~r.derived => c.hasMapped = r.had /\ c.mappedProps = r.before
         /\ c.ownProps = r.props

\* A container that its activationFn does not accept was rendered with other
\* props: it has the mappedProps it had and the new ownProps; another one had
\* its props derived at its first render although it was not active.
C24_Witness ==
  \E i, j \in 1..Len(containers) :
    /\ containers[i].activationFn = "open"
    /\ containers[i].render.done
    /\ containers[i].render.had
    /\ containers[i].render.own = {<<"x", 1>>}
    /\ containers[i].ownProps = {<<"x", 0>>}
    /\ containers[i].mappedProps = {<<"v", 1>>}
    /\ containers[j].activationFn = "stick"
    /\ containers[j].hasMapped
    /\ containers[j].stuckTo = Empty

\* The activationFn of container c returned false in the last pass (an "open"
\* one looks at the own props only).
Refused(c) ==
  c.last.evaluated /\ c.activationFn = "open" /\ Get(c.ownProps, "x") # 1

\* The mapper of container c was called in the last pass.
MapperCalled(c) == c.last.visited \/ c.last.threw

\* C25: in a pass, a container whose activationFn returned false has its
\* mapper not called, keeps its mappedProps and is not notified, and the pass
\* goes on: every container of the registry is evaluated unless the mapper of
\* one before it threw; the mapper of a container without activationFn is
\* called in every pass that reaches it.
C25_InactiveSkipped ==
  \A i \in 1..Len(containers) :
    LET c == containers[i]
    IN /\ Refused(c) =>
            /\ ~MapperCalled(c)
            /\ c.last.notified = 0
            /\ c.mappedProps = c.last.before
       /\ (c.last.evaluated /\ c.activationFn = "none") => MapperCalled(c)
       /\ containers[1].last.evaluated =>
            \/ c.last.evaluated
            \/ \E j \in 1..(i - 1) : containers[j].last.threw

\* The first container was refused by its activationFn while its mappedProps
\* were not those of its own props, and the pass notified the one after it.
C25_Witness ==
  /\ Len(containers) >= 2
  /\ Refused(containers[1])
  /\ containers[1].hasMapped
  /\ containers[1].mappedProps # Derived(containers[1])
  /\ containers[2].last.notified > 0

\* The dispatches of the drain that were queued behind the one whose handler
\* was invoked last.
Behind == {d \in 1..Len(dispatched) : d > log[Len(log)].id}

\* C26: when a handler threw, the outermost dispatch has thrown to its caller
\* and no drain is left running; the queue is empty, and no handler of a
\* dispatch that was queued behind the failing one was invoked; the state is
\* the one the last handler that returned left (the one the drain began with,
\* if none returned), and a state object a handler returned is the state. The
\* handlers invoked in a later drain are those of its own dispatches.
C26_ThrowDiscardsQueued ==
  /\ outcome = "threw" =>
       /\ Idle
       /\ actionQueue = <<>>
       /\ log # <<>>
       /\ \A d \in Behind : At(d) = {}
       /\ currentGlobal = IF hist.ret.response = "none" THEN log[1].global
                          ELSE hist.ret.after
       /\ hist.ret.response \in Globals => currentGlobal = hist.ret.response
  /\ (lastThrow > 0 /\ outcome \in {"running", "returned"}) =>
       /\ log # <<>>
       /\ log[1].id = 1
       /\ \A i \in 1..Len(log) : log[i].id \in 1..Len(dispatched)
       /\ ~Idle => Head(actionQueue).id = Top.id

\* The second handler of a name threw after the first had returned a new
\* state object and a dispatch had been queued: the dispatch was discarded
\* and the state object is the state.
C26_Witness ==
  /\ outcome = "threw"
  /\ lastThrow = 2
  /\ Behind # {}
  /\ log[Len(log)].handler = 2
  /\ hist.ret.response \in Globals
  /\ currentGlobal # log[1].global


============================================================================
